---- MODULE Spec2Model ----
(***************************************************************************)
(* HRT recorder client: the React application component (AppContent), its  *)
(* cloud-sync modal, and the pharmacokinetic engine the application calls. *)
(*                                                                         *)
(* Spec       the application: events, weight, simulation, cloud sync.     *)
(* SpecEngine the engine's pure functions applied to bounded inputs.       *)
(***************************************************************************)
EXTENDS Integers, Sequences, FiniteSets

\* ------------------------------------------------------------------------
\* JavaScript values.  Every value is a record [k, n]: k is the kind and n
\* the number it carries (0 for the kinds that carry none).
\* ------------------------------------------------------------------------
Num(n) == [k |-> "num", n |-> n]
NaN == [k |-> "nan", n |-> 0]
Infinity == [k |-> "inf", n |-> 0]
Undefined == [k |-> "undef", n |-> 0]
JsNull == [k |-> "null", n |-> 0]
Str == [k |-> "str", n |-> 0]              \* a string that is no numeral

\* Number(x)
ToNumber(x) ==
    CASE x.k = "num" -> x
      [] x.k = "inf" -> x
      [] x.k = "null" -> Num(0)
      [] OTHER -> NaN

\* Number.isFinite(x)
IsFinite(x) == x.k = "num"

\* typeof x === 'number'
IsNumberType(x) == x.k \in {"num", "nan", "inf"}

\* x > 0
GreaterThanZero(x) == (x.k = "num" /\ x.n > 0) \/ x.k = "inf"

\* x ?? d
Coalesce(x, d) == IF x.k \in {"null", "undef"} THEN d ELSE x

\* ------------------------------------------------------------------------
\* Bounds
\* ------------------------------------------------------------------------
MaxTime == 1            \* readings of the wall clock after the start
MaxImportTimers == 1    \* pending 100 ms timeouts that reset the importing flag

\* ------------------------------------------------------------------------
\* Enumerations of logic.ts and values the application is given
\* ------------------------------------------------------------------------
Routes == {"injection", "oral", "sublingual", "gel", "patchApply", "patchRemove"}
Esters == {"E2", "EB", "EV", "EC", "EN"}
DefaultEster == "E2"
DefaultWeight == Num(70)
NoStamp == 0 - 1                            \* a snapshot without meta.exportedAt
Null == [absent |-> TRUE]                    \* null: no simulation, no cloud data

Event(id, route, timeH, doseMG, ester) ==
    [id |-> id, route |-> route, timeH |-> timeH, doseMG |-> doseMG, ester |-> ester]

\* What an import file delivers as one element of "events".  id = 0 stands
\* for an id that is not a string, an ester outside Esters for one that is
\* missing or unknown.
RawItem(isObject, id, route, timeH, doseMG, ester) ==
    [isObject |-> isObject, id |-> id, route |-> route, timeH |-> timeH,
     doseMG |-> doseMG, ester |-> ester]

ValidItem == RawItem(TRUE, 1, "oral", Num(1), Num(1), "EV")
NegativeDoseItem == RawItem(TRUE, 0, "oral", Num(1), Num(0 - 1), "none")

RawItems ==
    { ValidItem,
      NegativeDoseItem,
      RawItem(TRUE, 1, "bogus", Num(1), Num(1), "EV"),
      RawItem(TRUE, 1, "oral", Str, JsNull, "EV") }

RawWeights == {Undefined, Num(60), Num(0), Str}

\* JSON.parse of an import file: an array of items, or an object with the
\* optional keys events and weight.
ParsedFile(isArray, hasEvents, evs, weight) ==
    [isArray |-> isArray, hasEvents |-> hasEvents, events |-> evs, weight |-> weight]

ParsedFiles ==
    {ParsedFile(TRUE, TRUE, <<r>>, Undefined) : r \in RawItems}
    \cup {ParsedFile(FALSE, FALSE, <<>>, w) : w \in RawWeights}
    \cup {ParsedFile(FALSE, TRUE, <<NegativeDoseItem>>, Num(60))}

\* meta.exportedAt, weight and events of a snapshot held by the server.
SyncData(exportedAt, weight, evs) ==
    [exportedAt |-> exportedAt, weight |-> weight, events |-> evs]

\* Snapshots that another device, or anything else that writes to the same
\* account, can have left on the server before the application starts.
OtherDeviceSnapshots ==
    { SyncData(1, Num(60), <<Event(1, "oral", Num(1), Num(1), "EV")>>),
      SyncData(0, Num(0), <<>>),
      SyncData(NoStamp, Undefined, <<>>) }

\* Events the dose form hands to handleSaveEvent: a new event (fresh id) or
\* an edited one (the id of an event of the list).
FormDoses == {Num(1)}

\* Weights the weight editor hands to setWeight.
EditorWeights == {Num(60), Num(70)}

\* ------------------------------------------------------------------------
\* Pure helpers of the application
\* ------------------------------------------------------------------------
SeqToSet(s) == {s[i] : i \in 1..Len(s)}

IdsOf(evs) == {evs[i].id : i \in 1..Len(evs)}

\* The ids events carry; an id stands for the string that is the event's id.
EventIds == {1}

\* uuidv4(): an id no event in `used` has.
uuidv4(used) == CHOOSE i \in EventIds \ used : TRUE

\* One step of the .map() of sanitizeImportedEvents: the sanitized item, or
\* Null for an item that is dropped.
SanitizeItem(item, used) ==
    IF ~item.isObject THEN Null
    ELSE IF item.route \notin Routes THEN Null
    ELSE IF ~IsFinite(ToNumber(item.timeH)) THEN Null
    ELSE Event(IF item.id # 0 THEN item.id ELSE uuidv4(used),
               item.route,
               ToNumber(item.timeH),
               IF IsFinite(ToNumber(item.doseMG)) THEN ToNumber(item.doseMG) ELSE Num(0),
               IF item.ester \in Esters THEN item.ester ELSE DefaultEster)

RECURSIVE SanitizeFrom(_, _, _)
SanitizeFrom(raw, i, used) ==
    IF i > Len(raw) THEN <<>>
    ELSE LET e == SanitizeItem(raw[i], used)
         IN  IF e = Null THEN SanitizeFrom(raw, i + 1, used)
             ELSE <<e>> \o SanitizeFrom(raw, i + 1, used \cup {e.id})

\* sanitizeImportedEvents(raw): map, then filter the nulls out
sanitizeImportedEvents(raw) ==
    SanitizeFrom(raw, 1, {raw[i].id : i \in 1..Len(raw)} \ {0})

\* processImportedData: the events and the weight it keeps from a parsed
\* file.  newWeight = Undefined when the file gives no usable weight.
ImportedEvents(parsed) ==
    IF parsed.isArray THEN sanitizeImportedEvents(parsed.events)
    ELSE IF parsed.hasEvents THEN sanitizeImportedEvents(parsed.events)
    ELSE <<>>

ImportedWeight(parsed) ==
    IF ~parsed.isArray /\ IsNumberType(parsed.weight) /\ GreaterThanZero(parsed.weight)
    THEN parsed.weight
    ELSE Undefined

\* The value runSimulation(events, weight) returns.  The engine is a pure
\* function of its two arguments, so here the result is identified by the
\* arguments of the call that produced it.
runSimulation(evs, w) == [ofEvents |-> evs, ofWeight |-> w]

\* ------------------------------------------------------------------------
\* State of the application
\* ------------------------------------------------------------------------
VARIABLES
    mounted,                  \* the component has mounted (its effects have run once)
    events,                   \* useState events
    weight,                   \* useState weight
    simulation,               \* useState simulation
    syncConfig,               \* useState syncConfig
    isSyncing,                \* syncStatus.isSyncing
    isImportingRef,           \* isImportingRef.current
    initialLoadCompleteRef,   \* initialLoadCompleteRef.current
    syncTimerRef,             \* syncTimerRef.current is not null
    syncTimer,                \* the pending debounce timeout and what its closure sees
    lastLocalModificationRef, \* lastLocalModificationRef.current
    pollInterval,             \* the poll interval is running
    localStorage,             \* hrt-events, hrt-weight, hrt-sync-config
    now,                      \* the wall clock: the readings taken so far
    cloud,                    \* the snapshot the server holds
    uploads,                  \* syncToCloud requests in flight
    loadPc,                   \* position of loadFromCloud
    saveFetch,                \* handleCloudSyncSave awaits fetchFromCloud
    importTimers,             \* pending 100 ms timeouts of handleImportFromCloud
    simEvents,                \* engine: the history given to run
    simWeight,                \* engine: the weight given to run
    simNow,                   \* engine: the clock reading run takes
    simResult,                \* engine: the SimulationResult of run
    query,                    \* engine: the last point query and its answer
    probe                     \* engine: the last contribution evaluated

vars == <<mounted, events, weight, simulation, syncConfig, isSyncing, isImportingRef,
          initialLoadCompleteRef, syncTimerRef, syncTimer, lastLocalModificationRef,
          pollInterval, localStorage, now, cloud, uploads, loadPc, saveFetch,
          importTimers, simEvents, simWeight, simNow, simResult, query, probe>>

appVars == <<mounted, events, weight, simulation, syncConfig, isSyncing, isImportingRef,
             initialLoadCompleteRef, syncTimerRef, syncTimer, lastLocalModificationRef,
             pollInterval, localStorage, now, cloud, uploads, loadPc, saveFetch,
             importTimers>>
engineVars == <<simEvents, simWeight, simNow, simResult, query, probe>>

dataVars == <<simulation, syncTimerRef, syncTimer, localStorage>>
refVars == <<isImportingRef, initialLoadCompleteRef, lastLocalModificationRef>>
netVars == <<cloud, uploads, loadPc, saveFetch, importTimers>>

\* Event lists and weights localStorage can hold when the application starts.
StoredEventLists == {<<>>, <<Event(1, "oral", Num(1), Num(1), "EV")>>}
StoredWeights == {DefaultWeight}

Init ==
    /\ mounted = FALSE
    /\ events \in StoredEventLists
    /\ weight \in StoredWeights
    /\ simulation = Null
    /\ syncConfig \in [isEnabled : BOOLEAN]
    /\ isSyncing = FALSE
    /\ isImportingRef = FALSE
    /\ initialLoadCompleteRef = FALSE
    /\ syncTimerRef = FALSE
    /\ syncTimer = Null
    /\ now = 0
    /\ lastLocalModificationRef = now
    /\ pollInterval = FALSE
    /\ localStorage = [events |-> events, weight |-> weight, config |-> syncConfig]
    /\ cloud \in {Null} \cup OtherDeviceSnapshots
    /\ uploads = {}
    /\ loadPc = "idle"
    /\ saveFetch = FALSE
    /\ importTimers = 0
    /\ simEvents = <<>>
    /\ simWeight = 70
    /\ simNow = 0
    /\ simResult = Null
    /\ query = Null
    /\ probe = Null

\* ------------------------------------------------------------------------
\* The effects React runs after a render.  ce, cw, cc, cs: the events, the
\* weight, the sync config, syncStatus.isSyncing changed in this render.
\* ------------------------------------------------------------------------

SimulationEffect_EventsOnly(ce, cw, evs, w, old) ==
    IF ce
    THEN IF Len(evs) > 0 THEN runSimulation(evs, w) ELSE Null
    ELSE old

\* useEffect(..., [events, weight]): the simulation after the render
SimulationEffect(ce, cw, evs, w, old) ==
    IF ce \/ cw
    THEN IF Len(evs) > 0 THEN runSimulation(evs, w) ELSE Null
    ELSE old

\* The two debounce effects share syncTimerRef: whichever runs clears the
\* pending timeout and sets a new one whose callback is the syncDataToCloud of
\* this render.
DebounceEffect_KeepsOnConfig(ce, cw, cc, evs, w, cfg, cause, old) ==
    IF ce \/ cw \/ (cc /\ old = Null)
    THEN [events |-> evs, weight |-> w, isEnabled |-> cfg.isEnabled,
          cause |-> cause]
    ELSE old

DebounceEffect_EventsTimerOnly(ce, cw, cc, evs, w, cfg, cause, old) ==
    IF ce \/ cc
    THEN [events |-> evs, weight |-> w, isEnabled |-> cfg.isEnabled,
          cause |-> cause]
    ELSE old

\* cause: what made the render that sets the timeout: "mount" (the first
\* render), "edit" (a local change of events or weight), "config" (the sync
\* settings saved), "adoption" (data fetched from the cloud replaced the local
\* data in loadFromCloud, the poll or handleImportFromCloud), "overwrite" (the
\* same in handleCloudSyncSave, on the user's answer to its prompt).
DebounceEffect(ce, cw, cc, evs, w, cfg, cause, old) ==
    IF ce \/ cw \/ cc
    THEN [events |-> evs, weight |-> w, isEnabled |-> cfg.isEnabled,
          cause |-> cause]
    ELSE old

StorageEffect(ce, cw, cc, evs, w, cfg, old) ==
    [events |-> IF ce \/ cc THEN evs ELSE old.events,
     weight |-> IF cw \/ cc THEN w ELSE old.weight,
     config |-> IF cc THEN cfg ELSE old.config]

PollEffect(cc, cs, cfg, old) ==
    IF cc \/ cs THEN cfg.isEnabled ELSE old

EffectsOf(ce, cw, cc, cs, cause) ==
    /\ simulation' = SimulationEffect(ce, cw, events', weight', simulation)
    /\ syncTimer' = DebounceEffect(ce, cw, cc, events', weight', syncConfig',
                                   cause, syncTimer)
    /\ syncTimerRef' = (syncTimerRef \/ ce \/ cw \/ cc)
    /\ localStorage' = StorageEffect(ce, cw, cc, events', weight', syncConfig', localStorage)
    /\ pollInterval' = PollEffect(cc, cs, syncConfig', pollInterval)

Effects(ce, cw, cc, cs) == EffectsOf(ce, cw, cc, cs, "edit")

\* setEvents(data.events); setWeight(data.weight) with data fetched from the
\* cloud, in loadFromCloud, the poll and handleImportFromCloud
AdoptEventsAndWeight(evs, w) ==
    /\ events' = evs
    /\ weight' = w
    /\ UNCHANGED <<syncConfig, isSyncing>>
    /\ EffectsOf(TRUE, w # weight, FALSE, FALSE, "adoption")

\* setEvents(cloudData.events); setWeight(cloudData.weight) of
\* handleCloudSyncSave
OverwriteEventsAndWeight(evs, w) ==
    /\ events' = evs
    /\ weight' = w
    /\ UNCHANGED <<syncConfig, isSyncing>>
    /\ EffectsOf(TRUE, w # weight, FALSE, FALSE, "overwrite")

\* setEvents(evs); setWeight(w) in one handler.  An array is a new object on
\* every call; a weight is compared by value.
SetEventsAndWeight(evs, w) ==
    /\ events' = evs
    /\ weight' = w
    /\ UNCHANGED <<syncConfig, isSyncing>>
    /\ Effects(TRUE, w # weight, FALSE, FALSE)

SetWeightOnly(w) ==
    /\ weight' = w
    /\ UNCHANGED <<events, syncConfig, isSyncing>>
    /\ Effects(FALSE, w # weight, FALSE, FALSE)

SetEventsOnly_ResetsWeight(evs) ==
    /\ events' = evs
    /\ weight' = DefaultWeight
    /\ UNCHANGED <<syncConfig, isSyncing>>
    /\ Effects(TRUE, weight # DefaultWeight, FALSE, FALSE)

SetEventsOnly(evs) ==
    /\ events' = evs
    /\ UNCHANGED <<weight, syncConfig, isSyncing>>
    /\ Effects(TRUE, FALSE, FALSE, FALSE)

\* ------------------------------------------------------------------------
\* Mount: the first render's effects, and the start of loadFromCloud
\* ------------------------------------------------------------------------
Mount ==
    /\ UNCHANGED engineVars
    /\ ~mounted
    /\ mounted' = TRUE
    /\ UNCHANGED <<events, weight, syncConfig, isSyncing>>
    /\ EffectsOf(TRUE, TRUE, TRUE, TRUE, "mount")
    /\ IF ~syncConfig.isEnabled
       THEN /\ initialLoadCompleteRef' = TRUE
            /\ loadPc' = "done"
            /\ UNCHANGED isImportingRef
       ELSE /\ isImportingRef' = TRUE
            /\ loadPc' = "fetching"
            /\ UNCHANGED initialLoadCompleteRef
    /\ UNCHANGED <<lastLocalModificationRef, now, cloud, uploads, saveFetch,
                   importTimers>>

\* What an await of fetchFromCloud resolves to: a throw, or the snapshot the
\* server holds (Null when it holds none).
FetchOutcomes ==
    {[failed |-> TRUE, data |-> Null], [failed |-> FALSE, data |-> cloud]}

HasData(r) == ~r.failed /\ r.data # Null

\* lastLocalModificationRef after adopting `data`
AdoptedStamp(data) ==
    IF data.exportedAt # NoStamp THEN data.exportedAt ELSE lastLocalModificationRef

LoadResponse_AdoptsWithoutStamp(r) ==
    /\ UNCHANGED engineVars
    /\ mounted
    /\ loadPc = "fetching"
    /\ loadPc' = "timer"
    /\ IF HasData(r)
       THEN /\ AdoptEventsAndWeight(r.data.events, Coalesce(r.data.weight, DefaultWeight))
            /\ lastLocalModificationRef' = AdoptedStamp(r.data)
       ELSE UNCHANGED <<events, weight, syncConfig, isSyncing, dataVars,
                        pollInterval, lastLocalModificationRef>>
    /\ UNCHANGED <<mounted, isImportingRef, initialLoadCompleteRef, now, cloud,
                   uploads, saveFetch, importTimers>>

\* loadFromCloud after the await, up to the finally block
LoadResponse(r) ==
    /\ UNCHANGED engineVars
    /\ mounted
    /\ loadPc = "fetching"
    /\ loadPc' = "timer"
    /\ IF HasData(r) /\ Len(r.data.events) > 0
       THEN /\ AdoptEventsAndWeight(r.data.events, Coalesce(r.data.weight, DefaultWeight))
            /\ lastLocalModificationRef' = AdoptedStamp(r.data)
       ELSE IF HasData(r) /\ r.data.exportedAt # NoStamp
       THEN /\ AdoptEventsAndWeight(<<>>, Coalesce(r.data.weight, DefaultWeight))
            /\ lastLocalModificationRef' = r.data.exportedAt
       ELSE UNCHANGED <<events, weight, syncConfig, isSyncing, dataVars,
                        pollInterval, lastLocalModificationRef>>
    /\ UNCHANGED <<mounted, isImportingRef, initialLoadCompleteRef, now, cloud,
                   uploads, saveFetch, importTimers>>

LoadTimer_KeepsImporting ==
    /\ UNCHANGED engineVars
    /\ loadPc = "timer"
    /\ loadPc' = "done"
    /\ initialLoadCompleteRef' = TRUE
    /\ UNCHANGED <<mounted, events, weight, syncConfig, isSyncing, dataVars,
                   pollInterval, lastLocalModificationRef, now, cloud, uploads,
                   saveFetch, importTimers, isImportingRef>>

\* The 500 ms timeout of loadFromCloud's finally block
LoadTimer ==
    /\ UNCHANGED engineVars
    /\ loadPc = "timer"
    /\ loadPc' = "done"
    /\ isImportingRef' = FALSE
    /\ initialLoadCompleteRef' = TRUE
    /\ UNCHANGED <<mounted, events, weight, syncConfig, isSyncing, dataVars,
                   pollInterval, lastLocalModificationRef, now, cloud, uploads,
                   saveFetch, importTimers>>

\* ------------------------------------------------------------------------
\* syncDataToCloud, called by the debounce timeout
\* ------------------------------------------------------------------------
\* The guards before the upload, on what the callback's closure sees
SyncSkipped(t) ==
    \/ isImportingRef
    \/ ~t.isEnabled
    \/ (Len(t.events) = 0 /\ ~initialLoadCompleteRef)

\* The callback of the debounce timeout; an upload reads the clock, and
\* `limit` bounds the readings
DebounceFireWithin(limit) ==
    /\ UNCHANGED engineVars
    /\ mounted
    /\ syncTimer # Null
    /\ syncTimer' = Null
    /\ IF SyncSkipped(syncTimer)
       THEN UNCHANGED <<isSyncing, lastLocalModificationRef, uploads, pollInterval, now>>
       ELSE /\ now < limit
            /\ now' = now + 1
            /\ isSyncing' = TRUE
            /\ lastLocalModificationRef' = now'
            /\ uploads' = uploads \cup {SyncData(now', syncTimer.weight, syncTimer.events)}
            /\ pollInterval' = PollEffect(FALSE, ~isSyncing, syncConfig, pollInterval)
    /\ UNCHANGED <<mounted, events, weight, simulation, syncConfig, syncTimerRef,
                   localStorage, isImportingRef, initialLoadCompleteRef, cloud,
                   loadPc, saveFetch, importTimers>>

DebounceFire == DebounceFireWithin(MaxTime)

\* syncDataToCloud after the await of syncToCloud: success, or failure (false
\* or a throw, which differ only in the error text shown)
UploadOutcomes == {"success", "failure"}

UploadComplete(u, outcome) ==
    /\ UNCHANGED engineVars
    /\ u \in uploads
    /\ uploads' = uploads \ {u}
    /\ cloud' = IF outcome = "success" THEN u ELSE cloud
    /\ isSyncing' = FALSE
    /\ pollInterval' = PollEffect(FALSE, isSyncing, syncConfig, pollInterval)
    /\ UNCHANGED <<mounted, events, weight, simulation, syncConfig, syncTimerRef,
                   syncTimer, localStorage, refVars, now, loadPc, saveFetch,
                   importTimers>>

\* ------------------------------------------------------------------------
\* The poll interval's callback (every 30 s while sync is enabled)
\* ------------------------------------------------------------------------
PollSkipped_NoTimerCheck == isImportingRef \/ isSyncing

PollSkipped == isImportingRef \/ isSyncing \/ syncTimerRef

\* The callback after its await of fetchFromCloud
PollAdopts(r) ==
    /\ HasData(r)
    /\ r.data.exportedAt # NoStamp
    /\ r.data.exportedAt > lastLocalModificationRef

PollTick ==
    /\ UNCHANGED engineVars
    /\ mounted
    /\ pollInterval
    /\ IF PollSkipped
       THEN UNCHANGED <<events, weight, syncConfig, isSyncing, dataVars, pollInterval,
                        isImportingRef, lastLocalModificationRef, importTimers>>
       ELSE \E r \in FetchOutcomes :
              IF PollAdopts(r)
              THEN /\ importTimers < MaxImportTimers
                   /\ isImportingRef' = TRUE
                   /\ AdoptEventsAndWeight(r.data.events,
                                         Coalesce(r.data.weight, DefaultWeight))
                   /\ lastLocalModificationRef' = r.data.exportedAt
                   /\ importTimers' = importTimers + 1
              ELSE UNCHANGED <<events, weight, syncConfig, isSyncing, dataVars,
                               pollInterval, isImportingRef,
                               lastLocalModificationRef, importTimers>>
    /\ UNCHANGED <<mounted, initialLoadCompleteRef, now, cloud, uploads, loadPc,
                   saveFetch>>

\* The 100 ms timeout set by the poll's adoption and by handleImportFromCloud
ImportTimer ==
    /\ UNCHANGED engineVars
    /\ importTimers > 0
    /\ importTimers' = importTimers - 1
    /\ isImportingRef' = FALSE
    /\ UNCHANGED <<mounted, events, weight, syncConfig, isSyncing, dataVars,
                   pollInterval, initialLoadCompleteRef, lastLocalModificationRef,
                   now, cloud, uploads, loadPc, saveFetch>>

\* ------------------------------------------------------------------------
\* The cloud-sync modal
\* ------------------------------------------------------------------------
\* handleCloudSyncSave up to its await.  One fetch of this handler is
\* followed at a time.
handleCloudSyncSave(newConfig) ==
    /\ UNCHANGED engineVars
    /\ mounted
    /\ syncConfig' = newConfig
    /\ UNCHANGED <<events, weight, isSyncing>>
    /\ EffectsOf(FALSE, FALSE, TRUE, FALSE, "config")
    /\ IF ~syncConfig.isEnabled /\ newConfig.isEnabled
       THEN ~saveFetch /\ saveFetch' = TRUE
       ELSE UNCHANGED saveFetch
    /\ UNCHANGED <<mounted, refVars, now, cloud, uploads, loadPc, importTimers>>

SaveFetchResponse_NoPrompt(r, confirm) ==
    /\ UNCHANGED engineVars
    /\ saveFetch
    /\ saveFetch' = FALSE
    /\ IF HasData(r)
       THEN /\ OverwriteEventsAndWeight(r.data.events,
                                         Coalesce(r.data.weight, DefaultWeight))
            /\ lastLocalModificationRef' = AdoptedStamp(r.data)
       ELSE UNCHANGED <<events, weight, syncConfig, isSyncing, dataVars,
                        pollInterval, lastLocalModificationRef>>
    /\ UNCHANGED <<mounted, isImportingRef, initialLoadCompleteRef, now, cloud,
                   uploads, loadPc, importTimers>>

\* handleCloudSyncSave after the await; confirm is the answer to window.confirm
SaveFetchResponse(r, confirm) ==
    /\ UNCHANGED engineVars
    /\ saveFetch
    /\ saveFetch' = FALSE
    /\ IF HasData(r) /\ confirm
       THEN /\ OverwriteEventsAndWeight(r.data.events,
                                         Coalesce(r.data.weight, DefaultWeight))
            /\ lastLocalModificationRef' = AdoptedStamp(r.data)
       ELSE UNCHANGED <<events, weight, syncConfig, isSyncing, dataVars,
                        pollInterval, lastLocalModificationRef>>
    /\ UNCHANGED <<mounted, isImportingRef, initialLoadCompleteRef, now, cloud,
                   uploads, loadPc, importTimers>>

\* CloudSyncModal.handleImportFromCloud: its await of fetchFromCloud and, on
\* data and a confirmed prompt, the application's handleImportFromCloud(data).
\* Until that call the handler touches only the modal's own state.
handleImportFromCloud(r, confirm) ==
    /\ UNCHANGED engineVars
    /\ mounted
    /\ IF HasData(r) /\ confirm
       THEN /\ importTimers < MaxImportTimers
            /\ isImportingRef' = TRUE
            /\ AdoptEventsAndWeight(r.data.events, Coalesce(r.data.weight, DefaultWeight))
            /\ lastLocalModificationRef' = AdoptedStamp(r.data)
            /\ importTimers' = importTimers + 1
       ELSE UNCHANGED <<events, weight, syncConfig, isSyncing, dataVars, pollInterval,
                        isImportingRef, lastLocalModificationRef, importTimers>>
    /\ UNCHANGED <<mounted, initialLoadCompleteRef, now, cloud, uploads, loadPc,
                   saveFetch>>

\* ------------------------------------------------------------------------
\* Local edits
\* ------------------------------------------------------------------------
\* processImportedData(parsed), reached from importEventsFromJson and, for an
\* encrypted file, from handlePasswordSubmit
processImportedData(parsed) ==
    /\ UNCHANGED engineVars
    /\ mounted
    /\ LET newEvents == ImportedEvents(parsed)
           newWeight == ImportedWeight(parsed)
       IN  IF Len(newEvents) = 0 /\ newWeight = Undefined
           THEN UNCHANGED <<events, weight, syncConfig, isSyncing, dataVars, pollInterval>>
           ELSE IF Len(newEvents) > 0 /\ newWeight # Undefined
           THEN SetEventsAndWeight(newEvents, newWeight)
           ELSE IF Len(newEvents) > 0
           THEN SetEventsOnly(newEvents)
           ELSE SetWeightOnly(newWeight)
    /\ UNCHANGED <<mounted, refVars, now, netVars>>

ReplaceById(evs, e) == [i \in 1..Len(evs) |-> IF evs[i].id = e.id THEN e ELSE evs[i]]

\* handleSaveEvent(e)
handleSaveEvent(e) ==
    /\ UNCHANGED engineVars
    /\ mounted
    /\ IF e.id \in IdsOf(events)
       THEN SetEventsOnly(ReplaceById(events, e))
       ELSE SetEventsOnly(Append(events, e))
    /\ UNCHANGED <<mounted, refVars, now, netVars>>

\* handleDeleteEvent(id), the confirm dialog accepted
handleDeleteEvent(id) ==
    /\ UNCHANGED engineVars
    /\ mounted
    /\ SetEventsOnly(SelectSeq(events, LAMBDA p : p.id # id))
    /\ UNCHANGED <<mounted, refVars, now, netVars>>

\* handleClearAllEvents, the confirm dialog accepted
handleClearAllEvents ==
    /\ UNCHANGED engineVars
    /\ mounted
    /\ Len(events) > 0
    /\ SetEventsOnly(<<>>)
    /\ UNCHANGED <<mounted, refVars, now, netVars>>

\* WeightEditorModal onSave={setWeight}
WeightEdit(w) ==
    /\ UNCHANGED engineVars
    /\ mounted
    /\ SetWeightOnly(w)
    /\ UNCHANGED <<mounted, refVars, now, netVars>>

\* ------------------------------------------------------------------------
\* The environment
\* ------------------------------------------------------------------------
\* What the dose form saves: an edited event of the list, or a new event
\* with an id of its own.
FormEvents ==
    {Event(id, "oral", Num(1), d, "EV") : id \in EventIds, d \in FormDoses}

Next ==
    \/ Mount
    \/ \E r \in FetchOutcomes : LoadResponse(r)
    \/ LoadTimer
    \/ DebounceFire
    \/ \E u \in uploads, o \in UploadOutcomes : UploadComplete(u, o)
    \/ PollTick
    \/ ImportTimer
    \/ \E c \in [isEnabled : BOOLEAN] : handleCloudSyncSave(c)
    \/ \E r \in FetchOutcomes, confirm \in BOOLEAN : SaveFetchResponse(r, confirm)
    \/ \E r \in FetchOutcomes, confirm \in BOOLEAN : handleImportFromCloud(r, confirm)
    \/ \E parsed \in ParsedFiles : processImportedData(parsed)
    \/ \E e \in FormEvents : handleSaveEvent(e)
    \/ \E id \in IdsOf(events) : handleDeleteEvent(id)
    \/ handleClearAllEvents
    \/ \E w \in EditorWeights : WeightEdit(w)

Spec == Init /\ [][Next]_vars

\* The application under the scheduling of the browser: the first render
\* happens, the fetch awaited by loadFromCloud settles (it resolves or throws),
\* and a timeout that was set fires.
Fairness ==
    /\ WF_vars(Mount)
    /\ WF_vars(\E r \in FetchOutcomes : LoadResponse(r))
    /\ WF_vars(LoadTimer)
    /\ WF_vars(ImportTimer)

SpecLive == Init /\ [][Next]_vars /\ Fairness

\* The application with sync enabled, a user who only edits events and
\* weight, and a server that accepts every upload: up to MaxUploads uploads,
\* which can be in flight together
MaxUploads == 2

InitUploads ==
    /\ Init
    /\ syncConfig.isEnabled

NextUploads ==
    \/ Mount
    \/ \E r \in FetchOutcomes : LoadResponse(r)
    \/ LoadTimer
    \/ DebounceFireWithin(MaxUploads)
    \/ \E u \in uploads : UploadComplete(u, "success")
    \/ \E e \in FormEvents : handleSaveEvent(e)
    \/ handleClearAllEvents
    \/ \E w \in EditorWeights : WeightEdit(w)

SpecUploads == InitUploads /\ [][NextUploads]_vars

\* ------------------------------------------------------------------------
\* The simulation engine (logic.ts: runSimulation, interpolateConcentration),
\* modelled from its specification.  Times are whole hours.  Concentrations
\* and exponentials are fixed-point integers.
\* ------------------------------------------------------------------------
MaxSimEvents == 2       \* events in one simulated history

Scale == 1000           \* fixed-point one
RateDen == 4            \* a rate constant k keeps (RateDen - k) / RateDen per hour
GridStep == 2           \* hours between two grid points
Horizon == 4            \* lookahead after the later of now and the last event
MaxWear == 4            \* maximum wear duration of a patch, hours

Min(a, b) == IF a < b THEN a ELSE b
Max(a, b) == IF a > b THEN a ELSE b

\* exp(-k t), fixed-point, one hour at a time: the value underflows to 0 at
\* large t and no intermediate product grows with t
RECURSIVE ExpDecay(_, _)
ExpDecay(k, t) ==
    IF t = 0 THEN Scale
    ELSE LET before == ExpDecay(k, t - 1)
         IN  (before * (RateDen - k)) \div RateDen

\* A dose event as the engine reads it
DoseEvent(id, route, timeH, doseMG, ester, releaseRate) ==
    [id |-> id, route |-> route, timeH |-> timeH, doseMG |-> doseMG,
     ester |-> ester, releaseRate |-> releaseRate]

\* 4.1 Parameter Resolver: the model of (route, substance), its volume of
\* distribution scaled linearly by the body weight.
Unsupported == [kind |-> "unsupported"]

resolve(route, ester, weightKg) ==
    CASE route = "oral" ->
           [kind |-> "firstOrder", ka |-> 2, ke |-> 1, F |-> 50, V |-> weightKg]
      [] route = "sublingual" ->
           [kind |-> "firstOrder", ka |-> 3, ke |-> 1, F |-> 80, V |-> weightKg]
      [] route = "gel" ->
           [kind |-> "firstOrder", ka |-> 1, ke |-> 1, F |-> 50, V |-> weightKg]
      [] route = "injection" /\ ester # "E2" ->
           [kind |-> "depot", kaFast |-> 3, kaSlow |-> 2, split |-> 50, ke |-> 1,
            F |-> 100, V |-> weightKg]
      [] route = "patchApply" ->
           [kind |-> "patch", ke |-> 1, V |-> weightKg]
      [] OTHER -> Unsupported

\* 4.2 Unit Normalizer: equivalent estradiol mass, in hundredths of a mg
toEquivalentMass(ester, doseMass) ==
    doseMass * (CASE ester = "E2" -> 100
                  [] ester = "EB" -> 72
                  [] ester = "EV" -> 76
                  [] ester = "EC" -> 69
                  [] OTHER -> 71)

\* What a division by zero leaves in place of a concentration
NotANumber == 0 - 1

FirstOrder_NoLimitForm(ka, ke, F, V, mass, t) ==
    LET hi == Max(ka, ke)
        lo == Min(ka, ke)
    IN  IF hi = lo THEN NotANumber
        ELSE (F * mass * ka * (ExpDecay(lo, t) - ExpDecay(hi, t))) \div (V * (hi - lo))

\* The single-dose first-order formula; the limit form when ka = ke
FirstOrder(ka, ke, F, V, mass, t) ==
    IF ka = ke
    THEN (F * mass * ka * t * ExpDecay(ke, t)) \div (V * RateDen)
    ELSE LET hi == Max(ka, ke)
             lo == Min(ka, ke)
         IN  (F * mass * ka * (ExpDecay(lo, t) - ExpDecay(hi, t))) \div (V * (hi - lo))

\* Zero-order release while worn, exponential decline after
PatchLevel(ke, V, rate, t) == (rate * (Scale - ExpDecay(ke, t))) \div (V * ke)

contribution_Unguarded(model, mass, elapsedHours, extras) ==
    LET t == IF elapsedHours < 0 THEN 0 - elapsedHours ELSE elapsedHours
    IN  CASE model.kind = "firstOrder" ->
               FirstOrder(model.ka, model.ke, model.F, model.V, mass, t)
          [] model.kind = "depot" ->
               (model.split * FirstOrder(model.kaFast, model.ke, model.F, model.V, mass, t)
                + (100 - model.split)
                    * FirstOrder(model.kaSlow, model.ke, model.F, model.V, mass, t))
               \div 100
          [] model.kind = "patch" ->
               IF t <= extras.wear
               THEN PatchLevel(model.ke, model.V, extras.releaseRate, t)
               ELSE (PatchLevel(model.ke, model.V, extras.releaseRate, extras.wear)
                     * ExpDecay(model.ke, t - extras.wear)) \div Scale
          [] OTHER -> 0

\* 4.3 Contribution Function
contribution(model, mass, elapsedHours, extras) ==
    IF elapsedHours < 0
    THEN 0
    ELSE CASE model.kind = "firstOrder" ->
                FirstOrder(model.ka, model.ke, model.F, model.V, mass, elapsedHours)
           [] model.kind = "depot" ->
                (model.split
                    * FirstOrder(model.kaFast, model.ke, model.F, model.V, mass, elapsedHours)
                 + (100 - model.split)
                    * FirstOrder(model.kaSlow, model.ke, model.F, model.V, mass, elapsedHours))
                \div 100
           [] model.kind = "patch" ->
                IF elapsedHours <= extras.wear
                THEN PatchLevel(model.ke, model.V, extras.releaseRate, elapsedHours)
                ELSE (PatchLevel(model.ke, model.V, extras.releaseRate, extras.wear)
                      * ExpDecay(model.ke, elapsedHours - extras.wear)) \div Scale
           [] OTHER -> 0

\* e comes before f in chronological order; events of equal time are taken
\* in the order of their ids, so that the order of the input does not matter
Before(e, f) ==
    e.timeH < f.timeH \/ (e.timeH = f.timeH /\ e.id < f.id)

RECURSIVE InsertByTime_InputOrder(_, _)
InsertByTime_InputOrder(sorted, e) ==
    IF sorted = <<>> THEN <<e>>
    ELSE IF e.timeH < Head(sorted).timeH THEN <<e>> \o sorted
    ELSE <<Head(sorted)>> \o InsertByTime_InputOrder(Tail(sorted), e)

RECURSIVE InsertByTime(_, _)
InsertByTime(sorted, e) ==
    IF sorted = <<>> THEN <<e>>
    ELSE IF Before(e, Head(sorted)) THEN <<e>> \o sorted
    ELSE <<Head(sorted)>> \o InsertByTime(Tail(sorted), e)

RECURSIVE SortByTime(_)
SortByTime(evs) ==
    IF evs = <<>> THEN <<>>
    ELSE InsertByTime(SortByTime(SubSeq(evs, 1, Len(evs) - 1)), evs[Len(evs)])

RECURSIVE PairFrom_OldestFirst(_, _, _, _)
PairFrom_OldestFirst(sorted, i, open, pairs) ==
    IF i > Len(sorted) THEN pairs
    ELSE IF sorted[i].route = "patchApply"
    THEN PairFrom_OldestFirst(sorted, i + 1, Append(open, sorted[i].id), pairs)
    ELSE IF sorted[i].route = "patchRemove" /\ Len(open) > 0
    THEN PairFrom_OldestFirst(sorted, i + 1, Tail(open),
                              pairs \cup {<<Head(open), sorted[i]>>})
    ELSE PairFrom_OldestFirst(sorted, i + 1, open, pairs)

\* Walks the chronological list: a patchApply opens, a patchRemove closes the
\* most recent patchApply still open.  pairs: <<id of the apply, the removal>>.
RECURSIVE PairFrom(_, _, _, _)
PairFrom(sorted, i, open, pairs) ==
    IF i > Len(sorted) THEN pairs
    ELSE IF sorted[i].route = "patchApply"
    THEN PairFrom(sorted, i + 1, Append(open, sorted[i].id), pairs)
    ELSE IF sorted[i].route = "patchRemove" /\ Len(open) > 0
    THEN PairFrom(sorted, i + 1, SubSeq(open, 1, Len(open) - 1),
                  pairs \cup {<<open[Len(open)], sorted[i]>>})
    ELSE PairFrom(sorted, i + 1, open, pairs)

activeWindow_InputOrder(evs) ==
    LET pairs == PairFrom(evs, 1, <<>>, {})
    IN  { [applyEvent |-> e,
           removeEvent |-> IF \E p \in pairs : p[1] = e.id
                           THEN (CHOOSE p \in pairs : p[1] = e.id)[2]
                           ELSE Null]
          : e \in {x \in SeqToSet(evs) : x.route = "patchApply"} }

\* 4.4 Active-Patch Resolver: the pairs (applyEvent, removeEvent), removeEvent
\* Null for a patchApply that is unmatched
activeWindow(evs) ==
    LET pairs == PairFrom(SortByTime(evs), 1, <<>>, {})
    IN  { [applyEvent |-> e,
           removeEvent |-> IF \E p \in pairs : p[1] = e.id
                           THEN (CHOOSE p \in pairs : p[1] = e.id)[2]
                           ELSE Null]
          : e \in {x \in SeqToSet(evs) : x.route = "patchApply"} }

\* The removal activeWindow pairs with the patchApply e, Null when unmatched
RemovalOf(e, evs) ==
    (CHOOSE p \in activeWindow(evs) : p.applyEvent = e).removeEvent

WearOf_OnePatchAtATime(e, evs) ==
    LET removal == RemovalOf(e, evs)
        later == {x \in SeqToSet(evs) : x.route = "patchApply" /\ Before(e, x)}
    IN  IF removal # Null THEN Min(removal.timeH - e.timeH, MaxWear)
        ELSE IF later # {}
        THEN Min((CHOOSE x \in later : \A y \in later : x = y \/ Before(x, y)).timeH
                 - e.timeH, MaxWear)
        ELSE MaxWear

\* Hours a patch stays on: to its removal, at most the maximum wear duration
WearOf(e, evs) ==
    LET removal == RemovalOf(e, evs)
    IN  IF removal = Null THEN MaxWear ELSE Min(removal.timeH - e.timeH, MaxWear)

ExtrasOf(e, evs) ==
    IF e.route = "patchApply"
    THEN [releaseRate |-> e.releaseRate, wear |-> WearOf(e, evs)]
    ELSE [releaseRate |-> 0, wear |-> 0]

\* What one event of the history adds at time t
EventContribution(e, evs, weightKg, t) ==
    contribution(resolve(e.route, e.ester, weightKg),
                 toEquivalentMass(e.ester, e.doseMG), t - e.timeH, ExtrasOf(e, evs))

RECURSIVE SumFrom_LastOnly(_, _, _, _)
SumFrom_LastOnly(evs, i, weightKg, t) ==
    IF i > Len(evs) THEN 0
    ELSE IF i < Len(evs) THEN SumFrom_LastOnly(evs, i + 1, weightKg, t)
    ELSE IF t - evs[i].timeH >= 0 THEN EventContribution(evs[i], evs, weightKg, t)
    ELSE 0

\* Step (4): the sum over the events whose elapsed time at t is >= 0
RECURSIVE SumFrom(_, _, _, _)
SumFrom(evs, i, weightKg, t) ==
    IF i > Len(evs) THEN 0
    ELSE (IF t - evs[i].timeH >= 0 THEN EventContribution(evs[i], evs, weightKg, t) ELSE 0)
         + SumFrom(evs, i + 1, weightKg, t)

RECURSIVE MinTime(_, _)
MinTime(evs, least) ==
    IF evs = <<>> THEN least ELSE MinTime(Tail(evs), Min(least, Head(evs).timeH))

RECURSIVE MaxTimeOf(_, _)
MaxTimeOf(evs, most) ==
    IF evs = <<>> THEN most ELSE MaxTimeOf(Tail(evs), Max(most, Head(evs).timeH))

GridCount_Truncated(startH, endH) == (endH - startH) \div GridStep + 1

\* Grid points from startH, GridStep apart, the last one at or after endH
GridCount(startH, endH) == (endH - startH + GridStep - 1) \div GridStep + 1

\* 4.5 Superposition Sampler
run(evs, weightKg, nowH) ==
    LET startH == MinTime(evs, nowH)
        endH == MaxTimeOf(evs, nowH) + Horizon
        n == GridCount(startH, endH)
        times == [i \in 1..n |-> startH + (i - 1) * GridStep]
    IN  [timeH |-> times,
         concPGmL |-> [i \in 1..n |-> SumFrom(evs, 1, weightKg, times[i])]]

\* The answer of a point query
Some(v) == [some |-> TRUE, v |-> v]
None == [some |-> FALSE, v |-> 0]

\* The greatest index in lo..hi whose time is <= h, given timeH[lo] <= h
RECURSIVE Bracket(_, _, _, _)
Bracket(timeH, h, lo, hi) ==
    IF lo >= hi THEN lo
    ELSE LET mid == (lo + hi + 1) \div 2
         IN  IF timeH[mid] <= h
             THEN Bracket(timeH, h, mid, hi)
             ELSE Bracket(timeH, h, lo, mid - 1)

Lerp(t1, c1, t2, c2, h) == c1 + ((c2 - c1) * (h - t1)) \div (t2 - t1)

interpolateConcentration_Clamped(sim, h) ==
    LET n == Len(sim.timeH)
        q == Max(sim.timeH[1], Min(h, sim.timeH[n]))
        i == Bracket(sim.timeH, q, 1, n)
    IN  IF i = n THEN Some(sim.concPGmL[n])
        ELSE Some(Lerp(sim.timeH[i], sim.concPGmL[i],
                       sim.timeH[i + 1], sim.concPGmL[i + 1], q))

interpolateConcentration_Step(sim, h) ==
    LET n == Len(sim.timeH)
    IN  IF n = 0 \/ h < sim.timeH[1] \/ h > sim.timeH[n] THEN None
        ELSE Some(sim.concPGmL[Bracket(sim.timeH, h, 1, n)])

\* 4.6 Point Query / Interpolator
interpolateConcentration(sim, h) ==
    LET n == Len(sim.timeH)
    IN  IF n = 0 \/ h < sim.timeH[1] \/ h > sim.timeH[n] THEN None
        ELSE LET i == Bracket(sim.timeH, h, 1, n)
             IN  IF i = n THEN Some(sim.concPGmL[n])
                 ELSE Some(Lerp(sim.timeH[i], sim.concPGmL[i],
                                sim.timeH[i + 1], sim.concPGmL[i + 1], h))

\* The simulation the application holds for a list of events: the body of
\* the effect with dependencies [events, weight], res being the result of
\* runSimulation(events, weight)
SimulationOf(evs, res) ==
    IF Len(evs) > 0 THEN res ELSE Null

NoLevel == 0 - 1

currentLevel_NoneWithoutSimulation(sim, h) ==
    IF sim = Null THEN NoLevel
    ELSE LET c == interpolateConcentration(sim, h)
         IN  IF c.some /\ c.v # 0 THEN c.v ELSE 0

\* currentLevel: the level shown, 0 when there is no simulation or no estimate
currentLevel(sim, h) ==
    IF sim = Null THEN 0
    ELSE LET c == interpolateConcentration(sim, h)
         IN  IF c.some /\ c.v # 0 THEN c.v ELSE 0

\* ------------------------------------------------------------------------
\* The engine's callers: one history, one simulation of it, point queries
\* ------------------------------------------------------------------------
OralDose == DoseEvent(1, "oral", 0, 2, "E2", 0)
InjectionDose == DoseEvent(2, "injection", 1, 4, "EV", 0)
GelDose == DoseEvent(3, "gel", 2, 1, "E2", 0)
PatchOn == DoseEvent(4, "patchApply", 0, 0, "E2", 100)
PatchOff == DoseEvent(5, "patchRemove", 2, 0, "E2", 0)
DoseEvents == {OralDose, InjectionDose, GelDose, PatchOn, PatchOff}

\* Histories: up to MaxSimEvents events, each at most once, in any order
SimHistories ==
    UNION { {h \in [1..n -> DoseEvents] : \A i, j \in 1..n : i # j => h[i] # h[j]}
            : n \in 0..MaxSimEvents }
SimWeights == {60, 70}
SimNows == {0, 3}
QueryHours == (0 - 2)..(3 + Horizon + GridStep + 1)
LongAfter == 40
ProbeHours == ((0 - 2)..3) \cup {LongAfter}

\* The engine is called with no application running
AppAtRest ==
    /\ mounted = FALSE
    /\ events = <<>>
    /\ weight = DefaultWeight
    /\ simulation = Null
    /\ syncConfig = [isEnabled |-> FALSE]
    /\ isSyncing = FALSE
    /\ isImportingRef = FALSE
    /\ initialLoadCompleteRef = FALSE
    /\ syncTimerRef = FALSE
    /\ syncTimer = Null
    /\ now = 0
    /\ lastLocalModificationRef = 0
    /\ pollInterval = FALSE
    /\ localStorage = [events |-> events, weight |-> weight, config |-> syncConfig]
    /\ cloud = Null
    /\ uploads = {}
    /\ loadPc = "idle"
    /\ saveFetch = FALSE
    /\ importTimers = 0

InitEngine ==
    /\ AppAtRest
    /\ simEvents \in SimHistories
    /\ simWeight \in SimWeights
    /\ simNow \in SimNows
    /\ simResult = Null
    /\ query = Null
    /\ probe = Null

\* run(events, weightKg)
RunSimulation ==
    /\ simResult = Null
    /\ simResult' = run(simEvents, simWeight, simNow)
    /\ UNCHANGED <<simEvents, simWeight, simNow, query, probe>>
    /\ UNCHANGED appVars

\* at(result, queryHours), and the level the application shows for the same
\* history at the same hour
QueryConcentration(h) ==
    /\ simResult # Null
    /\ query' = [hours |-> h, answer |-> interpolateConcentration(simResult, h),
                 level |-> currentLevel(SimulationOf(simEvents, simResult), h)]
    /\ UNCHANGED <<simEvents, simWeight, simNow, simResult, probe>>
    /\ UNCHANGED appVars

\* contribution(model, equivalentMass, elapsedHours, extras) for an event of
\* the history
EvaluateContribution(e, elapsedHours) ==
    /\ e.route # "patchRemove"
    /\ LET model == resolve(e.route, e.ester, simWeight)
           mass == toEquivalentMass(e.ester, e.doseMG)
       IN  probe' = [model |-> model, kind |-> model.kind, mass |-> mass,
                     elapsedHours |-> elapsedHours,
                     value |-> contribution(model, mass, elapsedHours,
                                            ExtrasOf(e, simEvents))]
    /\ UNCHANGED <<simEvents, simWeight, simNow, simResult, query>>
    /\ UNCHANGED appVars

NextEngine ==
    \/ RunSimulation
    \/ \E h \in QueryHours : QueryConcentration(h)
    \/ \E e \in SeqToSet(simEvents), dt \in ProbeHours : EvaluateContribution(e, dt)

SpecEngine == InitEngine /\ [][NextEngine]_vars

\* Histories of patch events: three applications (two of them at the same
\* hour) and two removals, in every order of every selection
MaxPatchEvents == 3

PatchOn2 == DoseEvent(6, "patchApply", 1, 0, "E2", 50)
PatchOn3 == DoseEvent(7, "patchApply", 1, 0, "E2", 20)
PatchOff2 == DoseEvent(8, "patchRemove", 3, 0, "E2", 0)
PatchEvents == {PatchOn, PatchOn2, PatchOn3, PatchOff, PatchOff2}

PatchHistories ==
    UNION { { s \in [1..n -> PatchEvents] : \A i, j \in 1..n : i # j => s[i] # s[j] }
            : n \in 0..MaxPatchEvents }

InitPatch ==
    /\ AppAtRest
    /\ simEvents \in PatchHistories
    /\ simWeight \in SimWeights
    /\ simNow \in SimNows
    /\ simResult = Null
    /\ query = Null
    /\ probe = Null

NextPatch ==
    \/ RunSimulation
    \/ \E h \in QueryHours : QueryConcentration(h)

SpecPatch == InitPatch /\ [][NextPatch]_vars

\* ------------------------------------------------------------------------
\* Properties of the application
\* ------------------------------------------------------------------------

\* C1: no user data (events, weight) is ever sent to a server: no syncToCloud
\* request carrying them is ever in flight.
C1_NoUserDataSent == uploads = {}

\* C2: once mounted, the simulation held is the result of runSimulation on the
\* current events and the current weight when events is non-empty, and null
\* when events is empty.
C2_SimulationIsCurrent ==
    mounted =>
        simulation = IF events = <<>> THEN Null ELSE runSimulation(events, weight)

\* C2 witness: the events and the weight have both changed since the start, and
\* a simulation is held.
C2_Witness ==
    /\ mounted
    /\ events \notin StoredEventLists
    /\ weight \notin StoredWeights
    /\ simulation # Null

\* C3: every event of the list has a finite timestamp and a dose that is a
\* number >= 0.
C3_EventsWellFormed ==
    \A i \in 1..Len(events) :
        /\ IsFinite(events[i].timeH)
        /\ IsFinite(events[i].doseMG)
        /\ events[i].doseMG.n >= 0

\* C4: the weight is a positive number.
C4_WeightPositive == IsFinite(weight) /\ weight.n > 0

\* The steps that are explicit user actions able to set the weight: the weight
\* editor, a file import, a confirmed import from the cloud, a confirmed
\* overwrite on enabling sync.
UserWeightStep ==
    \/ \E w \in EditorWeights : WeightEdit(w)
    \/ \E parsed \in ParsedFiles : processImportedData(parsed)
    \/ \E r \in FetchOutcomes : handleImportFromCloud(r, TRUE)
    \/ \E r \in FetchOutcomes : SaveFetchResponse(r, TRUE)

FirstGridTime == simResult.timeH[1]
LastGridTime == simResult.timeH[Len(simResult.timeH)]

\* C6: a point query answers none exactly when the query time is outside the
\* range the result's grid covers, and a concentration when it is inside.
C6_NoneOutsideGrid ==
    query # Null =>
        (query.answer.some <=>
            (FirstGridTime <= query.hours /\ query.hours <= LastGridTime))

\* C6 witness: a query after the last grid time was answered none.
C6_Witness ==
    /\ query # Null
    /\ query.hours > LastGridTime
    /\ ~query.answer.some
    /\ \E i \in 1..Len(simResult.concPGmL) : simResult.concPGmL[i] > 0

\* The sum of f over the set S
RECURSIVE SetSum(_, _)
SetSum(S, f) ==
    IF S = {} THEN 0
    ELSE LET x == CHOOSE y \in S : TRUE IN f[x] + SetSum(S \ {x}, f)

C8_ZeroBeforeEvent ==
    (probe # Null /\ probe.elapsedHours < 0) => probe.value = 0

\* C8 witness: the contribution of a depot dose was evaluated before its time.
C8_Witness ==
    /\ probe # Null
    /\ probe.kind = "depot"
    /\ probe.mass > 0
    /\ probe.elapsedHours < 0
    /\ probe.value = 0

\* C9: the times of a result increase strictly, they cover from the earlier
\* of the earliest event and now to the later of the last event and now plus
\* the horizon, and no concentration is negative.
C9_ResultWellFormed ==
    simResult # Null =>
        /\ Len(simResult.timeH) = Len(simResult.concPGmL)
        /\ Len(simResult.timeH) > 0
        /\ \A i \in 1..(Len(simResult.timeH) - 1) :
               simResult.timeH[i] < simResult.timeH[i + 1]
        /\ FirstGridTime <= simNow
        /\ LastGridTime >= simNow + Horizon
        /\ \A i \in 1..Len(simEvents) :
               /\ FirstGridTime <= simEvents[i].timeH
               /\ LastGridTime >= simEvents[i].timeH + Horizon
        /\ \A i \in 1..Len(simResult.concPGmL) : simResult.concPGmL[i] >= 0

\* C9 witness: a result of a history with events, whose range does not end on
\* a grid step and which has a positive concentration.
C9_Witness ==
    /\ simResult # Null
    /\ Len(simEvents) > 0
    /\ (simNow + Horizon - FirstGridTime) % GridStep # 0
    /\ LastGridTime > simNow + Horizon
    /\ \E i \in 1..Len(simResult.concPGmL) : simResult.concPGmL[i] > 0

\* C10: a query at a grid time answers the concentration stored there; a
\* query strictly between two adjacent grid times answers the point of the
\* straight line through the two samples, to the fixed-point rounding.
C10_InterpolatorRoundTrip ==
    query # Null =>
        \A i \in 1..Len(simResult.timeH) :
            /\ query.hours = simResult.timeH[i] =>
                   query.answer = Some(simResult.concPGmL[i])
            /\ (i < Len(simResult.timeH)
                    /\ simResult.timeH[i] < query.hours
                    /\ query.hours < simResult.timeH[i + 1]) =>
                   LET t1 == simResult.timeH[i]
                       t2 == simResult.timeH[i + 1]
                       c1 == simResult.concPGmL[i]
                       c2 == simResult.concPGmL[i + 1]
                       onLine == c1 * (t2 - query.hours) + c2 * (query.hours - t1)
                       got == query.answer.v * (t2 - t1)
                   IN  /\ query.answer.some
                       /\ got <= onLine
                       /\ onLine - got < t2 - t1

\* C10 witness: a query strictly between two grid times whose samples differ
\* was answered with a value strictly between them.
C10_Witness ==
    /\ query # Null
    /\ \E i \in 1..(Len(simResult.timeH) - 1) :
          /\ simResult.timeH[i] < query.hours
          /\ query.hours < simResult.timeH[i + 1]
          /\ simResult.concPGmL[i] + 1 < simResult.concPGmL[i + 1]
          /\ simResult.concPGmL[i] < query.answer.v
          /\ query.answer.v < simResult.concPGmL[i + 1]

\* C11: the result of an empty history is 0 at every sample of the default
\* window (from now to now plus the horizon), and the level the application
\* shows for an empty event list is 0.
C11_EmptyHistoryIsZero ==
    simEvents = <<>> =>
        /\ simResult # Null =>
               /\ FirstGridTime = simNow
               /\ LastGridTime >= simNow + Horizon
               /\ \A i \in 1..Len(simResult.concPGmL) : simResult.concPGmL[i] = 0
        /\ query # Null => query.level = 0

\* C11 witness: an empty history was simulated and queried inside its window.
C11_Witness ==
    /\ simEvents = <<>>
    /\ simResult # Null
    /\ Len(simResult.timeH) > 1
    /\ query # Null
    /\ query.answer = Some(0)
    /\ query.level = 0

\* C12: no unknown route or substance is replaced by a default on the way
\* from the input to the simulation: after the import of a file, every event
\* of the list has the route and the substance that an item of the file names.
C12_NoSilentDefault ==
    [][\A parsed \in ParsedFiles :
          (processImportedData(parsed) /\ events' # events) =>
              \A j \in 1..Len(events') :
                  \E i \in 1..Len(parsed.events) :
                      /\ parsed.events[i].route = events'[j].route
                      /\ parsed.events[i].ester = events'[j].ester]_vars

\* The patch applications and the removals of the history, and the first and
\* the last event of a non-empty set of events
Applies == {e \in SeqToSet(simEvents) : e.route = "patchApply"}
Removes == {e \in SeqToSet(simEvents) : e.route = "patchRemove"}
Earliest(S) == CHOOSE e \in S : \A f \in S : e = f \/ Before(e, f)
Latest(S) == CHOOSE e \in S : \A f \in S : e = f \/ Before(f, e)

C14_RemovalEndsMostRecentUnmatched ==
    /\ \A r \in Removes :
           LET open == {a \in Applies :
                           /\ Before(a, r)
                           /\ \/ RemovalOf(a, simEvents) = Null
                              \/ ~Before(RemovalOf(a, simEvents), r)}
           IN  \A a \in Applies :
                   (RemovalOf(a, simEvents) = r) <=> (open # {} /\ a = Latest(open))
    /\ SeqToSet(simEvents) = {PatchOn, PatchOn2, PatchOff} =>
           /\ RemovalOf(PatchOn2, simEvents) = PatchOff
           /\ RemovalOf(PatchOn, simEvents) = Null

C14_Witness ==
    /\ simResult # Null
    /\ simEvents = <<PatchOn, PatchOn2, PatchOff>>
    /\ activeWindow(simEvents) = {[applyEvent |-> PatchOn, removeEvent |-> Null],
                                  [applyEvent |-> PatchOn2, removeEvent |-> PatchOff]}

\* The patch applications of the history left unmatched
Unmatched == {a \in Applies : RemovalOf(a, simEvents) = Null}

\* C15: every unmatched patchApply is active from its application to the
\* maximum wear duration, at every sampled hour exactly as if it were the only
\* event of the history, and the result at every sampled hour holds the
\* contribution of each of the unmatched applications.
C15_UnmatchedActiveIndependently ==
    simResult # Null =>
        /\ \A a \in Unmatched : WearOf(a, simEvents) = MaxWear
        /\ \A i \in 1..Len(simResult.timeH) :
               LET t == simResult.timeH[i]
                   Alone == [a \in Unmatched |->
                                EventContribution(a, <<a>>, simWeight, t)]
                   Others == [e \in SeqToSet(simEvents) \ Unmatched |->
                                 EventContribution(e, simEvents, simWeight, t)]
               IN  /\ \A a \in Unmatched :
                          EventContribution(a, simEvents, simWeight, t) = Alone[a]
                   /\ simResult.concPGmL[i] =
                          SetSum(Unmatched, Alone)
                          + SetSum(SeqToSet(simEvents) \ Unmatched, Others)

\* Two unmatched applications, both on at a sampled hour: each adds a positive
\* contribution of its own
C15_Witness ==
    /\ simResult # Null
    /\ {PatchOn, PatchOn2} \subseteq Unmatched
    /\ \E i \in 1..Len(simResult.timeH) :
           LET t == simResult.timeH[i]
           IN  /\ t > PatchOn2.timeH
               /\ t <= PatchOn.timeH + MaxWear
               /\ EventContribution(PatchOn, <<PatchOn>>, simWeight, t) > 0
               /\ EventContribution(PatchOn2, <<PatchOn2>>, simWeight, t) > 0
               /\ simResult.concPGmL[i] >=
                      EventContribution(PatchOn, <<PatchOn>>, simWeight, t)
                      + EventContribution(PatchOn2, <<PatchOn2>>, simWeight, t)

\* The orderings of the events of a history
Orderings(evs) ==
    { s \in [1..Len(evs) -> SeqToSet(evs)] :
          \A i, j \in 1..Len(evs) : i # j => s[i] # s[j] }

C19_AdoptionNeverUploads ==
    [][(syncTimer # Null /\ syncTimer.cause = "adoption") =>
          uploads' \subseteq uploads]_vars

\* C20: with sync enabled, whenever the application is idle (no upload in
\* progress, no import or fetch in progress, no timeout pending) a tick of the
\* poll interval is not skipped: it fetches the cloud.
C20_IdlePollFetches ==
    (/\ mounted
     /\ syncConfig.isEnabled
     /\ pollInterval
     /\ ~isSyncing
     /\ ~isImportingRef
     /\ syncTimer = Null
     /\ loadPc = "done"
     /\ ~saveFetch
     /\ importTimers = 0) => ~PollSkipped

\* C21: a local edit of events or weight is never replaced by a cloud snapshot
\* exported before the edit was made: while the pending debounce timeout is
\* the one of a local edit (the edit is not uploaded yet) and the server's
\* snapshot carries a time not after the last-local-modification time, neither
\* the startup load nor a poll tick changes events or weight.
C21_EditNotReplacedByOlderSnapshot ==
    [][(/\ syncTimer # Null
        /\ syncTimer.cause = "edit"
        /\ cloud # Null
        /\ cloud.exportedAt # NoStamp
        /\ cloud.exportedAt <= lastLocalModificationRef
        /\ (PollTick \/ \E r \in FetchOutcomes : LoadResponse(r)))
       => (events' = events /\ weight' = weight)]_vars

\* C22: starting the application with no local events and sync enabled cannot
\* overwrite the cloud snapshot with empty data: while the pending debounce
\* timeout is the one set at mount, the list it would upload is empty and the
\* server holds a snapshot with events, no step starts an upload.
C22_NoEmptyUploadFromStartup ==
    [][(/\ syncTimer # Null
        /\ syncTimer.cause = "mount"
        /\ Len(syncTimer.events) = 0
        /\ cloud # Null
        /\ Len(cloud.events) > 0)
       => uploads' \subseteq uploads]_vars

\* C23: uploads are debounced.  Every change of events, weight or sync config
\* starts no upload and leaves one pending timeout, whose callback sees the
\* events, the weight and the config of that moment; an upload starts only in
\* the step in which the pending timeout fires, one per firing, and it carries
\* the events and the weight current at that moment.
C23_UploadsDebounced ==
    [][/\ (events' # events \/ weight' # weight \/ syncConfig' # syncConfig) =>
              /\ uploads' = uploads
              /\ syncTimer' # Null
       /\ syncTimer' # Null =>
              /\ syncTimer'.events = events'
              /\ syncTimer'.weight = weight'
              /\ syncTimer'.isEnabled = syncConfig'.isEnabled
       /\ uploads' \ uploads # {} =>
              /\ syncTimer # Null
              /\ syncTimer' = Null
              /\ \E u \in uploads' :
                     /\ uploads' \ uploads = {u}
                     /\ u.events = events
                     /\ u.weight = weight]_vars

\* An upload started after a burst: the events and the weight had both
\* changed since the start, and one upload carries the two final values
C23_Witness ==
    /\ \E u \in uploads :
           /\ uploads = {u}
           /\ u.events = events
           /\ u.weight = weight
    /\ events \notin StoredEventLists
    /\ weight \notin StoredWeights
    /\ syncTimer = Null

\* C24: a poll tick never starts a cloud fetch while an upload is in flight,
\* while an import is in progress, or while a debounced upload is pending:
\* in each of these states the tick is skipped before its fetch.
C24_PollSkippedWhileBusy ==
    (/\ mounted
     /\ pollInterval
     /\ \/ uploads # {}
        \/ isImportingRef
        \/ syncTimer # Null) => PollSkipped

\* The poll interval is running while an upload is in flight, with no import
\* in progress and no timeout pending
C24_Witness ==
    /\ mounted
    /\ pollInterval
    /\ uploads # {}
    /\ ~isImportingRef
    /\ syncTimer = Null
    /\ PollSkipped

\* C25: handleCloudSyncSave starts a fetch only when isEnabled goes from false
\* to true, and itself changes neither events nor weight; after the fetch the
\* events and the weight become the snapshot's when the fetch returned data and
\* the user confirmed, and stay as they are when the user declines, the cloud
\* has no data or the fetch fails.
C25_OverwriteOnlyOnEnableAndConfirm ==
    [][/\ \A c \in [isEnabled : BOOLEAN] :
              handleCloudSyncSave(c) =>
                  /\ events' = events /\ weight' = weight
                  /\ (saveFetch' /\ ~saveFetch) <=>
                         (~syncConfig.isEnabled /\ c.isEnabled)
       /\ \A r \in FetchOutcomes, confirm \in BOOLEAN :
              SaveFetchResponse(r, confirm) =>
                  IF ~r.failed /\ r.data # Null /\ confirm
                  THEN /\ events' = r.data.events
                       /\ weight' = Coalesce(r.data.weight, DefaultWeight)
                  ELSE events' = events /\ weight' = weight]_vars

\* The user has enabled sync on a running application, the server held a
\* snapshot, the user confirmed, and the local data is now the snapshot's
C25_Witness ==
    /\ mounted
    /\ syncConfig.isEnabled
    /\ syncTimer # Null
    /\ syncTimer.cause = "overwrite"
    /\ cloud # Null
    /\ events = cloud.events
    /\ weight = Coalesce(cloud.weight, DefaultWeight)
    /\ weight # DefaultWeight

\* C26: on startup with sync enabled, when the fetch throws or returns no
\* data (nothing, or a snapshot with no events and no exportedAt) the startup
\* load leaves events, weight and what localStorage holds of them as they
\* are; with sync disabled the first render starts no fetch.
C26_StartupKeepsLocalData ==
    [][/\ \A r \in FetchOutcomes :
              (/\ LoadResponse(r)
               /\ \/ r.failed
                  \/ r.data = Null
                  \/ (Len(r.data.events) = 0 /\ r.data.exportedAt = NoStamp))
              => /\ events' = events
                 /\ weight' = weight
                 /\ localStorage' = localStorage
       /\ (Mount /\ ~syncConfig.isEnabled) =>
              /\ loadPc' = "done"
              /\ events' = events
              /\ weight' = weight]_vars

\* The startup fetch returned a snapshot with no events and no exportedAt, and
\* the local data is what localStorage held
C26_Witness ==
    /\ loadPc = "timer"
    /\ cloud # Null
    /\ Len(cloud.events) = 0
    /\ cloud.exportedAt = NoStamp
    /\ syncTimer # Null
    /\ syncTimer.cause = "mount"
    /\ Len(events) > 0
    /\ events = localStorage.events
    /\ weight = DefaultWeight

\* C27: on every startup path the initial-load-complete flag eventually
\* becomes true, and whenever the importing flag is set (by the startup load,
\* a poll update or a manual cloud import) it is eventually reset.
C27_FlagsEventuallySettle ==
    /\ <>initialLoadCompleteRef
    /\ isImportingRef ~> ~isImportingRef

\* After the startup load and a manual import from the cloud, both flags are
\* as auto-sync needs them
C27_Witness ==
    /\ loadPc = "done"
    /\ initialLoadCompleteRef
    /\ ~isImportingRef
    /\ importTimers = 0
    /\ syncConfig.isEnabled
    /\ syncTimer # Null
    /\ syncTimer.cause = "adoption"

\* C28: while sync is disabled there is no background network activity: no
\* step starts an upload, the first render starts no startup fetch, and no
\* poll interval is running once the application has mounted.
C28_NoNetworkWhileDisabled ==
    [][~syncConfig.isEnabled =>
          /\ uploads' \subseteq uploads
          /\ Mount => loadPc' = "done"
          /\ (mounted /\ ~syncConfig'.isEnabled) => ~pollInterval']_vars

\* With sync off the data was changed and the debounce timeout has fired with
\* the import flag clear and the initial load complete: no upload was started
C28_Witness ==
    /\ mounted
    /\ ~syncConfig.isEnabled
    /\ localStorage.config.isEnabled = FALSE
    /\ initialLoadCompleteRef
    /\ ~isImportingRef
    /\ loadPc = "done"
    /\ events \notin StoredEventLists
    /\ syncTimer = Null
    /\ uploads = {}
    /\ now = 0
    /\ ~pollInterval

\* C29: with sync enabled and every upload succeeding, once the local edits
\* have stopped and nothing is pending (no debounce timeout, no upload in
\* flight, the startup load done) the cloud stores the final local events and
\* weight, whatever the order in which the uploads completed.
C29_CloudHoldsFinalData ==
    (/\ now > 0
     /\ uploads = {}
     /\ syncTimer = Null
     /\ loadPc = "done") =>
        /\ cloud # Null
        /\ cloud.events = events
        /\ cloud.weight = weight

\* C30: when the user turns sync on, the local data is not uploaded over the
\* existing cloud snapshot before the snapshot is fetched and the prompt is
\* answered: while the fetch of handleCloudSyncSave is pending and the server
\* holds a snapshot, the debounce timeout set by the config change starts no
\* upload.
C30_NoUploadBeforeOverwritePrompt ==
    [][(/\ saveFetch
        /\ cloud # Null
        /\ syncTimer # Null
        /\ syncTimer.cause = "config")
       => uploads' \subseteq uploads]_vars

====
